---- MODULE Spec2Model ----
(***************************************************************************)
(* Model of the speech / translation core of globalytix-app (TeacherType). *)
(*                                                                         *)
(*  - client/src/lib/api.ts: createLimiter (the concurrency gate),         *)
(*    audioCache and tts().                                                *)
(*  - client/src/components/enhanced-speech-interface.tsx: the recording   *)
(*    session (startRecording, stopRecording, processRecordedAudio,        *)
(*    scheduleRetry, resetToIdle).                                         *)
(*  - the server routes that build a speech-markup document.               *)
(*  - the server routes /api/stt, /api/translate and /api/tts (batch).     *)
(*  - audioBufferToWav, the encoder of the recorded buffer.                *)
(*                                                                         *)
(* JavaScript runs handlers to completion: one action of the model is one  *)
(* synchronous run of a handler or of an await continuation; the awaits    *)
(* (fetch, body reads, getUserMedia, timers) are the points where actions  *)
(* of other requests interleave.                                           *)
(***************************************************************************)
EXTENDS Integers, Sequences, FiniteSets, TLC

(***************************************************************************)
(* Bounds of the model and program constants.                              *)
(***************************************************************************)
\* number of tts() calls issued in one behaviour
MaxReq == 5

\* number of startRecording() invocations that pass the guard in one behaviour
MaxChains == 2

\* longest text of a synthesis request, in characters
MaxTextLen == 3

\* longest target list of a translate request
MaxTargets == 2

\* longest buffer given to the encoder, in samples
MaxSamples == 5

\* longest items array of a batch synthesis request
MaxItems == 3

\* enhanced-speech-interface.tsx:104  const targetSampleRate = 16000
TargetSampleRate == 16000

\* enhanced-speech-interface.tsx:108  new ArrayBuffer(44 + newLength * 2)
HeaderBytes == 44

\* enhanced-speech-interface.tsx:133  const threshold = 0.01, in hundredths
Threshold == 1

\* api.ts:90  const runLimited = createLimiter(3)
Limit == 3

VARIABLES
    \* ---- api.ts: limiter, cache, tts() calls
    active,         \* createLimiter: let active = 0
    queue,          \* createLimiter: const queue (request ids, head first)
    audioCache,     \* Map<string, Blob>: function from the stored keys to blobs
    nextId,         \* number of the next tts() call; calls are numbered in arrival order
    pc,             \* position of each tts() call
    arg,            \* the (text, voice, locale) of each tts() call
    ret,            \* the Blob each tts() call returned
    fetched,        \* the calls whose fetch('/api/tts-single') was issued
    \* ---- enhanced-speech-interface.tsx: one EnhancedSpeechInterface component
    recordingState, \* useState<RecordingState>('idle')
    currentMessage, \* useState<MessageBubble | null>: [type, chain] or NoMessage
    previousMessage, \* useState<MessageBubble | null>: the fading bubble
    fades,          \* number of armed 300 ms timeouts of replaceMessage
    seen,           \* the currentMessage each chain's closures captured
    englishAudioBlob, \* useState<Blob | null>: the chain whose audio is held, or 0
    mediaRecorderRef, \* mediaRecorderRef.current: the chain of the recorder, or 0
    retryPending,   \* the timeout of retryTimeoutRef is armed
    emitted,        \* the titles of the toast() calls of the latest step
    cpc,            \* position of each startRecording() invocation (a chain)
    autoStop,       \* the 4 s timeout of each chain is armed
    sttText,        \* sttResponse.text of each chain
    englishText,    \* englishText of each chain
    lastStart,      \* the latest run of startRecording: <<state it saw, what it did>>
    \* ---- the server routes that send a speech-markup document to the provider
    ssmlRoute,      \* the route that handled the latest synthesis request
    ssmlText,       \* the text of that request (a sequence of characters)
    ssmlDoc,        \* the document it sent to the provider
    \* ---- the server routes /api/stt and /api/translate
    sttReq,         \* the /api/stt request in progress and its response
    trReq,          \* the /api/translate request in progress and its response
    \* ---- audioBufferToWav
    wav,            \* the buffer given to the encoder and what it wrote
    \* ---- the server route /api/tts
    batch           \* the /api/tts request in progress and its response

ttsVars == <<active, queue, audioCache, nextId, pc, arg, ret, fetched>>

sessVars == <<recordingState, currentMessage, previousMessage, fades, seen,
              englishAudioBlob, mediaRecorderRef,
              retryPending, emitted, cpc, autoStop, sttText, englishText, lastStart>>

ssmlVars == <<ssmlRoute, ssmlText, ssmlDoc>>

\* the server routes and the encoder, one request or buffer at a time
srvVars == <<sttReq, trReq, wav, batch>>

vars == <<ttsVars, sessVars, ssmlVars, srvVars>>

(***************************************************************************)
(* api.ts: tts() and createLimiter                                         *)
(***************************************************************************)
Req == 1..MaxReq

NoBlob == 0
NoArg == <<>>

\* the (text, voice, locale) triples callers pass to tts()
TtsInputs ==
    { [text |-> "hi", voice |-> "v", locale |-> "en"],
      [text |-> "yo", voice |-> "v", locale |-> "en"] }

\* api.ts:96  const key = `${locale}:${voice}:${text}`
KeyOf(t) == t.locale \o ":" \o t.voice \o ":" \o t.text

\* api.ts:98  audioCache.has(key)
CacheHas(cache, key) == key \in DOMAIN cache

\* a cache that keeps the latest entry only
CacheSetEvicting(cache, key, blob) == [k \in {key} |-> blob]

\* a cache in which the first blob stored under a key stays
CacheSetIfAbsent(cache, key, blob) ==
    [k \in (DOMAIN cache) \cup {key} |-> IF k \in DOMAIN cache THEN cache[k] ELSE blob]

\* api.ts:114  audioCache.set(key, blob)
CacheSet(cache, key, blob) ==
    [k \in (DOMAIN cache) \cup {key} |-> IF k = key THEN blob ELSE cache[k]]

\* admission that leaves the last slot unused
AdmitBelowLast(a) == a < Limit - 1

\* admission off by one
AdmitUpTo(a) == a <= Limit

\* api.ts:84  active < limit
Admit(a) == a < Limit

\* the newest waiter put first
EnqueueFront(q, r) == <<r>> \o q

\* api.ts:84  queue.push(exec)
Enqueue(q, r) == Append(q, r)

\* A Blob is a fresh object per provider response: the blob produced by the
\* provider call of request r is named r.
BlobOf(r) == r

InitTts ==
    /\ active = 0
    /\ queue = <<>>
    /\ audioCache = <<>>
    /\ nextId = 1
    /\ pc = [r \in Req |-> "new"]
    /\ arg = [r \in Req |-> NoArg]
    /\ ret = [r \in Req |-> NoBlob]
    /\ fetched = {}

\* tts(text, voice, locale), lines 95-106, up to its first suspension:
\* a cache hit returns the stored blob; a miss goes through run() of the
\* limiter, which either calls exec() (active++, fetch issued) or pushes exec.
TtsCall(t) ==
    /\ nextId <= MaxReq
    /\ LET r == nextId
           key == KeyOf(t)
       IN /\ nextId' = nextId + 1
          /\ arg' = [arg EXCEPT ![r] = t]
          /\ IF CacheHas(audioCache, key)
             THEN /\ pc' = [pc EXCEPT ![r] = "done"]
                  /\ ret' = [ret EXCEPT ![r] = audioCache[key]]
                  /\ UNCHANGED <<active, queue, fetched>>
             ELSE IF Admit(active)
             THEN /\ active' = active + 1
                  /\ pc' = [pc EXCEPT ![r] = "fetching"]
                  /\ fetched' = fetched \cup {r}
                  /\ UNCHANGED <<queue, ret>>
             ELSE /\ queue' = Enqueue(queue, r)
                  /\ pc' = [pc EXCEPT ![r] = "queued"]
                  /\ UNCHANGED <<active, fetched, ret>>
    /\ UNCHANGED audioCache
    /\ UNCHANGED <<sessVars, ssmlVars, srvVars>>

\* exec() after `await fn()`, lines 75-81: resolve or reject, then the finally
\* block: active--, and if the queue is not empty its head is shifted and
\* called at once (active++, fetch issued) in the same synchronous run.
\* outcome: "ok" (response.ok), "notok" (a response with !ok), "reject".
SettledPc(outcome) ==
    CASE outcome = "ok" -> "blob"
      [] outcome = "notok" -> "text"
      [] OTHER -> "failed"

\* the slot given back only when the fetch resolved
ReleasedOnResolve(a, outcome) == IF outcome = "reject" THEN a ELSE a - 1

\* api.ts:79  finally { active--; ... }: the slot is given back whatever the outcome
Released(a, outcome) == a - 1

\* the last waiter is left in the queue
HasWaiterButLast(q) == Len(q) > 1

\* api.ts:80  if (queue.length)
HasWaiter(q) == Len(q) > 0

FetchSettle(r, outcome) ==
    /\ pc[r] = "fetching"
    /\ IF HasWaiter(queue)
       THEN /\ pc' = [pc EXCEPT ![r] = SettledPc(outcome), ![Head(queue)] = "fetching"]
            /\ queue' = Tail(queue)
            /\ active' = Released(active, outcome) + 1
            /\ fetched' = fetched \cup {Head(queue)}
       ELSE /\ pc' = [pc EXCEPT ![r] = SettledPc(outcome)]
            /\ active' = Released(active, outcome)
            /\ UNCHANGED <<queue, fetched>>
    /\ UNCHANGED <<audioCache, nextId, arg, ret>>
    /\ UNCHANGED <<sessVars, ssmlVars, srvVars>>

\* tts() lines 108-115 after the limiter resolved: a response that is not ok
\* is read as text and thrown; an ok response is read as a blob, stored
\* under the key and returned.
BodyRead(r) ==
    /\ pc[r] \in {"blob", "text"}
    /\ IF pc[r] = "blob"
       THEN /\ audioCache' = CacheSet(audioCache, KeyOf(arg[r]), BlobOf(r))
            /\ ret' = [ret EXCEPT ![r] = BlobOf(r)]
            /\ pc' = [pc EXCEPT ![r] = "done"]
       ELSE /\ pc' = [pc EXCEPT ![r] = "failed"]
            /\ UNCHANGED <<audioCache, ret>>
    /\ UNCHANGED <<active, queue, nextId, arg, fetched>>
    /\ UNCHANGED <<sessVars, ssmlVars, srvVars>>

\* response.blob() / response.text() rejects (the body stream breaks): the
\* exception leaves tts() before audioCache.set.
BodyFail(r) ==
    /\ pc[r] \in {"blob", "text"}
    /\ pc' = [pc EXCEPT ![r] = "failed"]
    /\ UNCHANGED <<active, queue, audioCache, nextId, arg, ret, fetched>>
    /\ UNCHANGED <<sessVars, ssmlVars, srvVars>>

NextTts ==
    \/ \E t \in TtsInputs : TtsCall(t)
    \/ \E r \in Req, o \in {"ok", "notok", "reject"} : FetchSettle(r, o)
    \/ \E r \in Req : BodyRead(r)
    \/ \E r \in Req : BodyFail(r)

\* K distinct requests: the r-th call asks for a text of its own
DistinctInput(r) == [text |-> "p" \o ToString(r), voice |-> "v", locale |-> "en"]

BurstNext ==
    \/ TtsCall(DistinctInput(nextId))
    \/ \E r \in Req, o \in {"ok", "notok", "reject"} : FetchSettle(r, o)
    \/ \E r \in Req : BodyRead(r)
    \/ \E r \in Req : BodyFail(r)

\* every call asks for the same triple
RaceInput == [text |-> "hi", voice |-> "v", locale |-> "en"]

RaceNext ==
    \/ TtsCall(RaceInput)
    \/ \E r \in Req, o \in {"ok", "notok", "reject"} : FetchSettle(r, o)
    \/ \E r \in Req : BodyRead(r)
    \/ \E r \in Req : BodyFail(r)

\* some pending provider call or body read returns
Returns ==
    \/ \E r \in Req, o \in {"ok", "notok", "reject"} : FetchSettle(r, o)
    \/ \E r \in Req : BodyRead(r) \/ BodyFail(r)

\* tts() is exported and takes any three strings: text is what the user typed
\* or what the translator returned, voice and locale come from the language
\* catalog.  Three different triples, in two of which a ':' stands in the
\* text or in the voice name.
KeyInputs ==
    { [text |-> "b:a", voice |-> "v",   locale |-> "en"],
      [text |-> "a",   voice |-> "v:b", locale |-> "en"],
      [text |-> "a",   voice |-> "v",   locale |-> "en"] }

KeysNext ==
    \/ \E t \in KeyInputs : TtsCall(t)
    \/ \E r \in Req, o \in {"ok", "notok", "reject"} : FetchSettle(r, o)
    \/ \E r \in Req : BodyRead(r)
    \/ \E r \in Req : BodyFail(r)

(***************************************************************************)
(* enhanced-speech-interface.tsx: the recording session                    *)
(*                                                                         *)
(* A chain is one invocation of startRecording() that passed its guard,    *)
(* together with the recorder, the timers and the processRecordedAudio()   *)
(* run it leads to.  Event handlers read the state of the latest render.   *)
(* The locals of a chain (sttResponse, englishText) exist while its        *)
(* processRecordedAudio() runs.                                            *)
(***************************************************************************)
Chain == 1..MaxChains

NoMessage == <<>>
NoText == <<"?">>

\* sttResponse.text as a sequence of characters
Transcripts == { <<>>, <<" ">>, <<"h">>, <<" ", "h">> }

\* String.prototype.trim on a sequence of characters
RECURSIVE TrimLeft(_)
TrimLeft(s) == IF s # <<>> /\ Head(s) = " " THEN TrimLeft(Tail(s)) ELSE s

RECURSIVE TrimRight(_)
TrimRight(s) ==
    IF s # <<>> /\ s[Len(s)] = " " THEN TrimRight(SubSeq(s, 1, Len(s) - 1)) ELSE s

Trim(s) == TrimRight(TrimLeft(s))

\* the transcript tested without trim()
HasSpeechUntrimmed(text) == text # <<>>

\* line 191: sttResponse.text && sttResponse.text.trim()  (a string is truthy
\* when it is not empty)
HasSpeech(text) == text # <<>> /\ Trim(text) # <<>>

\* a guard that lets a start through in done as well
PassesGuardOrDone(state) == state \in {"idle", "done"}

\* line 253: if (recordingState !== 'idle') return;
PassesGuard(state) == state = "idle"

\* line 211: translateResponse.translations[0]?.text || "Translation failed"
EnglishTextOf(translated) == IF translated = "" THEN "Translation failed" ELSE translated

\* the stages of processRecordedAudio at which a chain waits
Pipeline == {"decode", "stt", "translate", "tts", "showing"}

InitSession ==
    /\ recordingState = "idle"
    /\ currentMessage = NoMessage
    /\ previousMessage = NoMessage
    /\ fades = 0
    /\ seen = [c \in Chain |-> NoMessage]
    /\ englishAudioBlob = 0
    /\ mediaRecorderRef = 0
    /\ retryPending = FALSE
    /\ emitted = <<>>
    /\ cpc = [c \in Chain |-> "none"]
    /\ autoStop = [c \in Chain |-> FALSE]
    /\ sttText = [c \in Chain |-> NoText]
    /\ englishText = [c \in Chain |-> ""]
    /\ lastStart = <<>>

\* lines 66-76 replaceMessage, called by chain c.  `currentMessage` is the
\* value the closure of chain c captured: processRecordedAudio and
\* replaceMessage are those of the render in which startRecording was called.
ReplaceMessage(c, bubble) ==
    /\ currentMessage' = bubble
    /\ IF seen[c] # NoMessage
       THEN /\ previousMessage' = seen[c]
            /\ fades' = fades + 1
       ELSE UNCHANGED <<previousMessage, fades>>

\* lines 70-73: a 300 ms timeout of replaceMessage fires
FadeFires ==
    /\ fades > 0
    /\ fades' = fades - 1
    /\ previousMessage' = NoMessage
    /\ emitted' = <<>>
    /\ UNCHANGED <<recordingState, currentMessage, seen, englishAudioBlob, mediaRecorderRef,
                   retryPending, cpc, autoStop, sttText, englishText, lastStart>>
    /\ UNCHANGED <<ttsVars, ssmlVars, srvVars>>

\* the chain the next accepted startRecording() gets
FreeChain == {c \in Chain : cpc[c] = "none" /\ \A d \in Chain : d < c => cpc[d] # "none"}

\* The record button (lines 388-390) pressed when it shows startRecording:
\* lines 252-262, up to `await getUserMedia`.  A state other than idle returns.
StartRecording ==
    /\ recordingState \notin {"listening", "translating"}
    /\ IF PassesGuard(recordingState)
       THEN /\ \E c \in FreeChain :
                  /\ cpc' = [cpc EXCEPT ![c] = "mic"]
                  /\ seen' = [seen EXCEPT ![c] = currentMessage]
            /\ lastStart' = <<recordingState, "accepted">>
       ELSE /\ lastStart' = <<recordingState, "ignored">>
            /\ UNCHANGED <<cpc, seen>>
    /\ emitted' = <<>>
    /\ UNCHANGED <<recordingState, currentMessage, englishAudioBlob, mediaRecorderRef,
                   retryPending, autoStop, sttText, englishText>>
    /\ UNCHANGED <<previousMessage, fades>>
    /\ UNCHANGED <<ttsVars, ssmlVars, srvVars>>

\* lines 264-286: getUserMedia resolved; the recorder is created, stored in
\* the ref and started, the 4 s timeout is armed.
MicGranted(c) ==
    /\ cpc[c] = "mic"
    /\ cpc' = [cpc EXCEPT ![c] = "recording"]
    /\ mediaRecorderRef' = c
    /\ recordingState' = "listening"
    /\ autoStop' = [autoStop EXCEPT ![c] = TRUE]
    /\ emitted' = <<>>
    /\ UNCHANGED <<currentMessage, englishAudioBlob, retryPending, sttText,
                   englishText, lastStart>>
    /\ UNCHANGED <<previousMessage, fades, seen>>
    /\ UNCHANGED <<ttsVars, ssmlVars, srvVars>>

\* lines 54-63 scheduleRetry: clearTimeout of the armed one, then a new timeout
ScheduleRetry == retryPending' = TRUE

\* lines 230-236, 241-247, 290-296: setRecordingState('error'); toast; scheduleRetry
EnterError(title) ==
    /\ recordingState' = "error"
    /\ emitted' = <<title>>
    /\ ScheduleRetry

\* lines 288-297: getUserMedia rejected
MicDenied(c) ==
    /\ cpc[c] = "mic"
    /\ cpc' = [cpc EXCEPT ![c] = "aborted"]
    /\ EnterError("Microphone access denied")
    /\ UNCHANGED <<currentMessage, englishAudioBlob, mediaRecorderRef, autoStop,
                   sttText, englishText, lastStart>>
    /\ seen' = [seen EXCEPT ![c] = NoMessage]
    /\ UNCHANGED <<previousMessage, fades>>
    /\ UNCHANGED <<ttsVars, ssmlVars, srvVars>>

\* a test that also passes once the recorder has stopped
IsRecordingOrLater(position) == position \notin {"none", "mic"}

\* lines 283 and 302: recorder.state === 'recording'
IsRecording(position) == position = "recording"

\* lines 301-305 stopRecording, the record button pressed while listening; a
\* recorder that is no longer recording is left alone
StopRecording ==
    /\ recordingState = "listening"
    /\ mediaRecorderRef # 0
    /\ cpc' = [cpc EXCEPT ![mediaRecorderRef] = IF IsRecording(@) THEN "stopping" ELSE @]
    /\ emitted' = <<>>
    /\ UNCHANGED <<recordingState, currentMessage, englishAudioBlob, mediaRecorderRef,
                   retryPending, autoStop, sttText, englishText, lastStart>>
    /\ UNCHANGED <<previousMessage, fades, seen>>
    /\ UNCHANGED <<ttsVars, ssmlVars, srvVars>>

\* lines 282-286: the 4 s timeout fires; it stops a recorder still recording
AutoStop(c) ==
    /\ autoStop[c]
    /\ autoStop' = [autoStop EXCEPT ![c] = FALSE]
    /\ cpc' = [cpc EXCEPT ![c] = IF IsRecording(@) THEN "stopping" ELSE @]
    /\ emitted' = <<>>
    /\ UNCHANGED <<recordingState, currentMessage, englishAudioBlob, mediaRecorderRef,
                   retryPending, sttText, englishText, lastStart>>
    /\ UNCHANGED <<previousMessage, fades, seen>>
    /\ UNCHANGED <<ttsVars, ssmlVars, srvVars>>

\* lines 271-273 and 173-179: onstop runs processRecordedAudio up to its first await
OnStop(c) ==
    /\ cpc[c] = "stopping"
    /\ cpc' = [cpc EXCEPT ![c] = "decode"]
    /\ recordingState' = "translating"
    /\ emitted' = <<>>
    /\ UNCHANGED <<currentMessage, englishAudioBlob, mediaRecorderRef, retryPending,
                   autoStop, sttText, englishText, lastStart>>
    /\ UNCHANGED <<previousMessage, fades, seen>>
    /\ UNCHANGED <<ttsVars, ssmlVars, srvVars>>

\* lines 239-248: a stage throws and the catch block of processRecordedAudio runs
StageFails(c, stage) ==
    /\ cpc[c] = stage
    /\ cpc' = [cpc EXCEPT ![c] = "aborted"]
    /\ sttText' = [sttText EXCEPT ![c] = NoText]
    /\ englishText' = [englishText EXCEPT ![c] = ""]
    /\ EnterError("Something went wrong")
    /\ UNCHANGED <<currentMessage, englishAudioBlob, mediaRecorderRef, autoStop, lastStart>>
    /\ seen' = [seen EXCEPT ![c] = NoMessage]
    /\ UNCHANGED <<previousMessage, fades>>
    /\ UNCHANGED <<ttsVars, ssmlVars, srvVars>>

\* lines 179-189: the blob decodes; the wav is built and posted to /stt
Decoded(c) ==
    /\ cpc[c] = "decode"
    /\ cpc' = [cpc EXCEPT ![c] = "stt"]
    /\ emitted' = <<>>
    /\ UNCHANGED <<recordingState, currentMessage, englishAudioBlob, mediaRecorderRef,
                   retryPending, autoStop, sttText, englishText, lastStart>>
    /\ UNCHANGED <<previousMessage, fades, seen>>
    /\ UNCHANGED <<ttsVars, ssmlVars, srvVars>>

\* lines 191-208 and 229-237: /stt answered with `text`
SttReturns(c, text) ==
    /\ cpc[c] = "stt"
    /\ IF HasSpeech(text)
       THEN /\ ReplaceMessage(c, <<"student", c>>)
            /\ cpc' = [cpc EXCEPT ![c] = "translate"]
            /\ emitted' = <<>>
            /\ UNCHANGED <<recordingState, retryPending, seen>>
       ELSE /\ cpc' = [cpc EXCEPT ![c] = "nospeech"]
            /\ EnterError("Couldn't detect speech")
            /\ seen' = [seen EXCEPT ![c] = NoMessage]
            /\ UNCHANGED <<currentMessage, previousMessage, fades>>
    /\ sttText' = [sttText EXCEPT ![c] = text]
    /\ UNCHANGED <<englishAudioBlob, mediaRecorderRef, autoStop, englishText, lastStart>>
    /\ UNCHANGED <<ttsVars, ssmlVars, srvVars>>

\* a pipeline that arms the 800 ms timeout without synthesizing
AfterTranslateSkipsTts == "showing"

\* lines 213-215: after the translation the chain awaits tts()
AfterTranslate == "tts"

\* lines 208-215: /translate answered; translated is translations[0]?.text
\* ("" when there is none); tts() is called
TranslateReturns(c, translated) ==
    /\ cpc[c] = "translate"
    /\ englishText' = [englishText EXCEPT ![c] = EnglishTextOf(translated)]
    /\ cpc' = [cpc EXCEPT ![c] = AfterTranslate]
    /\ emitted' = <<>>
    /\ UNCHANGED <<recordingState, currentMessage, englishAudioBlob, mediaRecorderRef,
                   retryPending, autoStop, sttText, lastStart>>
    /\ UNCHANGED <<previousMessage, fades, seen>>
    /\ UNCHANGED <<ttsVars, ssmlVars, srvVars>>

\* lines 215-227: tts() returned a blob; the 800 ms timeout is armed
TtsReturns(c) ==
    /\ cpc[c] = "tts"
    /\ englishAudioBlob' = c
    /\ cpc' = [cpc EXCEPT ![c] = "showing"]
    /\ emitted' = <<>>
    /\ UNCHANGED <<recordingState, currentMessage, mediaRecorderRef, retryPending,
                   autoStop, sttText, englishText, lastStart>>
    /\ UNCHANGED <<previousMessage, fades, seen>>
    /\ UNCHANGED <<ttsVars, ssmlVars, srvVars>>

\* lines 219-227: the 800 ms timeout fires
ShowEnglish(c) ==
    /\ cpc[c] = "showing"
    /\ ReplaceMessage(c, <<"english", c>>)
    /\ seen' = [seen EXCEPT ![c] = NoMessage]
    /\ recordingState' = "done"
    /\ cpc' = [cpc EXCEPT ![c] = "finished"]
    /\ sttText' = [sttText EXCEPT ![c] = NoText]
    /\ englishText' = [englishText EXCEPT ![c] = ""]
    /\ emitted' = <<>>
    /\ UNCHANGED <<englishAudioBlob, mediaRecorderRef, retryPending, autoStop, lastStart>>
    /\ UNCHANGED <<ttsVars, ssmlVars, srvVars>>

\* a retry that marks the session as done
RetryStateDone == "done"

\* line 57: setRecordingState('idle')
RetryState == "idle"

\* lines 56-62: the 2 s timeout of scheduleRetry fires
RetryFires ==
    /\ retryPending
    /\ retryPending' = FALSE
    /\ recordingState' = RetryState
    /\ emitted' = <<"Ready to try again">>
    /\ UNCHANGED <<currentMessage, englishAudioBlob, mediaRecorderRef, cpc, autoStop,
                   sttText, englishText, lastStart>>
    /\ UNCHANGED <<previousMessage, fades, seen>>
    /\ UNCHANGED <<ttsVars, ssmlVars, srvVars>>

\* lines 332-340 resetToIdle; its button is rendered (line 407) when the
\* current bubble is the english one and an audio blob is held
ResetToIdle ==
    /\ currentMessage # NoMessage
    /\ currentMessage[1] = "english"
    /\ englishAudioBlob # 0
    /\ recordingState' = "idle"
    /\ currentMessage' = NoMessage
    /\ previousMessage' = NoMessage
    /\ englishAudioBlob' = 0
    /\ retryPending' = FALSE
    /\ emitted' = <<>>
    /\ UNCHANGED <<mediaRecorderRef, cpc, autoStop, sttText, englishText, lastStart>>
    /\ UNCHANGED <<fades, seen>>
    /\ UNCHANGED <<ttsVars, ssmlVars, srvVars>>

NextSession ==
    \/ StartRecording
    \/ FadeFires
    \/ StopRecording
    \/ ResetToIdle
    \/ RetryFires
    \/ \E c \in Chain : MicGranted(c)
    \/ \E c \in Chain : MicDenied(c)
    \/ \E c \in Chain : AutoStop(c)
    \/ \E c \in Chain : OnStop(c)
    \/ \E c \in Chain : Decoded(c)
    \/ \E c \in Chain, t \in Transcripts : SttReturns(c, t)
    \/ \E c \in Chain, t \in {"", "hello"} : TranslateReturns(c, t)
    \/ \E c \in Chain : TtsReturns(c)
    \/ \E c \in Chain : ShowEnglish(c)
    \/ \E c \in Chain, stage \in {"decode", "stt", "translate", "tts"} : StageFails(c, stage)

(***************************************************************************)
(* The server routes that build a speech-markup document                   *)
(*   "tts-single": app.post('/api/tts-single'), routes file                *)
(*   "tts-batch":  app.post('/api/tts'), routes file (one item)            *)
(*   "tts-legacy": app.post('/api/tts'), standalone server (one item)      *)
(* Texts and documents are sequences of characters.  The envelope keeps    *)
(* the elements around the text; its attributes are left out.              *)
(***************************************************************************)
Chars == {"a", "&", "<", ">", "'", "\""}

RECURSIVE SeqsUpTo(_)
SeqsUpTo(n) ==
    IF n = 0 THEN { <<>> }
    ELSE LET shorter == SeqsUpTo(n - 1)
         IN shorter \cup {Append(t, ch) : t \in {x \in shorter : Len(x) = n - 1}, ch \in Chars}

Texts == SeqsUpTo(MaxTextLen)

\* String.prototype.replace(/ch/g, rep)
RECURSIVE ReplaceAll(_, _, _)
ReplaceAll(str, ch, rep) ==
    IF str = <<>> THEN <<>>
    ELSE (IF Head(str) = ch THEN rep ELSE <<Head(str)>>) \o ReplaceAll(Tail(str), ch, rep)

Amp == <<"&", "a", "m", "p", ";">>
Lt == <<"&", "l", "t", ";">>
Gt == <<"&", "g", "t", ";">>
Quot == <<"&", "q", "u", "o", "t", ";">>
Apos == <<"&", "#", "3", "9", ";">>

\* routes file: function escapeXml(s)
EscapeXml(str) == ReplaceAll(ReplaceAll(ReplaceAll(str, "&", Amp), "<", Lt), ">", Gt)

\* standalone server: function escapeXml(text)
EscapeXmlLegacy(str) ==
    ReplaceAll(ReplaceAll(ReplaceAll(ReplaceAll(ReplaceAll(str,
        "&", Amp), "<", Lt), ">", Gt), "\"", Quot), "'", Apos)

\* <speak><voice> ... </voice></speak>
VoiceOpen == <<"<", "s", ">", "<", "v", ">">>
VoiceClose == <<"<", "/", "v", ">", "<", "/", "s", ">">>
\* <prosody rate='-10%'> ... </prosody>
ProsodyOpen == <<"<", "p", ">">>
ProsodyClose == <<"<", "/", "p", ">">>

\* /api/tts-single: <prosody rate='-10%'>${escapeXml(text)}</prosody>
SsmlSingle(text) == VoiceOpen \o ProsodyOpen \o EscapeXml(text) \o ProsodyClose \o VoiceClose

\* /api/tts of the routes file: <voice name='${voice}'>${item.text}</voice>
SsmlBatch(text) == VoiceOpen \o text \o VoiceClose

\* /api/tts of the standalone server: <voice name='${voice}'>${escapeXml(it.text)}</voice>
SsmlLegacy(text) == VoiceOpen \o EscapeXmlLegacy(text) \o VoiceClose

InitSsml ==
    /\ ssmlRoute = "none"
    /\ ssmlText = <<>>
    /\ ssmlDoc = <<>>

PostTtsSingle(text) ==
    /\ ssmlRoute = "none"
    /\ ssmlRoute' = "tts-single"
    /\ ssmlText' = text
    /\ ssmlDoc' = SsmlSingle(text)
    /\ UNCHANGED <<ttsVars, sessVars, srvVars>>

PostTtsBatch(text) ==
    /\ ssmlRoute = "none"
    /\ ssmlRoute' = "tts-batch"
    /\ ssmlText' = text
    /\ ssmlDoc' = SsmlBatch(text)
    /\ UNCHANGED <<ttsVars, sessVars, srvVars>>

PostTtsLegacy(text) ==
    /\ ssmlRoute = "none"
    /\ ssmlRoute' = "tts-legacy"
    /\ ssmlText' = text
    /\ ssmlDoc' = SsmlLegacy(text)
    /\ UNCHANGED <<ttsVars, sessVars, srvVars>>

\* the provider answered and the response was sent: the request is over
SsmlReply ==
    /\ ssmlRoute # "none"
    /\ ssmlRoute' = "none"
    /\ ssmlText' = <<>>
    /\ ssmlDoc' = <<>>
    /\ UNCHANGED <<ttsVars, sessVars, srvVars>>

\* /api/tts-single rejects an empty text with status 400 (`!text`)
NextSsml ==
    \/ \E text \in Texts \ {<<>>} : PostTtsSingle(text)
    \/ \E text \in Texts : PostTtsBatch(text)
    \/ \E text \in Texts : PostTtsLegacy(text)
    \/ SsmlReply

(***************************************************************************)
(* server routes: POST /api/stt                                            *)
(*                                                                         *)
(* One request at a time is followed from its arrival to its response; the *)
(* awaits of the handler (the recognition call, the language               *)
(* identification call) are the steps.                                     *)
(***************************************************************************)
\* req.body.language: "" stands for a request without the field
SttLanguages == {"", "auto", "es-ES", "en-US"}

\* RecognitionStatus of the provider's answer
RecognitionStatuses == {"Success", "success", "NoMatch", "Error"}

\* language codes the identification call answers with
DetectCodes == {"es", "en", "zh", "de"}

\* line 178: the tag recognition runs with when the request says "auto"
BootstrapTag == "en-US"

\* line 157: the text of the mock answer
MockTranscript == <<"[", "M", "]">>

\* lines 230-244
langMap ==
    [es |-> "es-ES", fr |-> "fr-FR", ar |-> "ar-SA", fa |-> "fa-IR",
     ru |-> "ru-RU", zh |-> "zh-CN", it |-> "it-IT", pt |-> "pt-PT",
     nl |-> "nl-NL", tr |-> "tr-TR", da |-> "da-DK", lv |-> "lv-LV",
     en |-> "en-US"]

\* String.prototype.toUpperCase on the language codes of the model
ToUpperCase(code) ==
    CASE code = "es" -> "ES"
      [] code = "en" -> "EN"
      [] code = "de" -> "DE"
      [] code = "zh" -> "ZH"
      [] OTHER -> code

\* a locale guessed from the code alone
LocaleGuessed(code) == code \o "-" \o ToUpperCase(code)

\* line 247: langMap[detectedCode] || `${detectedCode}-${detectedCode.toUpperCase()}`
LocaleOf(code) ==
    IF code \in DOMAIN langMap THEN langMap[code] ELSE code \o "-" \o ToUpperCase(code)

\* line 201
IsSuccess(status) == status = "Success" \/ status = "success"

\* line 204: displayText && displayText.trim()
HasDisplayText(text) == text # <<>> /\ Trim(text) # <<>>

\* line 261, 268: language || 'auto'
LanguageOrAuto(language) == IF language = "" THEN "auto" ELSE language

NoSttReq ==
    [pc |-> "none", language |-> "", finalLanguage |-> "", provider |-> "none",
     recognition |-> "", displayText |-> <<>>, detect |-> "none",
     status |-> 0, text |-> <<>>, replyLanguage |-> "", error |-> "",
     detectedLanguage |-> ""]

InitStt == sttReq = NoSttReq

\* lines 145-181: the request arrives; hasAudio: audioData is present,
\* hasKey: AZURE_SPEECH_KEY is set.
PostStt(language, hasAudio, hasKey) ==
    /\ sttReq.pc = "none"
    /\ sttReq' =
         IF ~hasAudio
         THEN [NoSttReq EXCEPT !.pc = "replied", !.language = language,
                               !.status = 400, !.error = "Missing audio data"]
         ELSE IF ~hasKey
         THEN [NoSttReq EXCEPT !.pc = "replied", !.language = language,
                               !.status = 200, !.text = MockTranscript,
                               !.replyLanguage = IF language = "" THEN "en" ELSE language]
         ELSE [NoSttReq EXCEPT !.pc = "recognizing", !.language = language,
                               !.finalLanguage =
                                   IF language = "auto" THEN BootstrapTag ELSE language]
    /\ UNCHANGED <<ttsVars, sessVars, ssmlVars, trReq, wav, batch>>

\* lines 183-204 and 265-278: the recognition call returns.
\* outcome: "reject" (fetch throws), "notok" (!sttResponse.ok), "badjson"
\* (sttResponse.json() throws), "ok" (a body with RecognitionStatus and a
\* display text).
SttProviderReturns(outcome, recognition, text) ==
    /\ sttReq.pc = "recognizing"
    /\ outcome # "ok" => (recognition = "" /\ text = <<>>)
    /\ outcome = "ok" => recognition # ""
    /\ LET got == [sttReq EXCEPT !.provider = outcome, !.recognition = recognition,
                                 !.displayText = text]
       IN sttReq' =
            IF outcome = "notok"
            THEN [got EXCEPT !.pc = "replied", !.status = 500,
                             !.error = "Speech recognition failed"]
            ELSE IF outcome \in {"reject", "badjson"}
            THEN [got EXCEPT !.pc = "replied", !.status = 500,
                             !.error = "exception"]
            ELSE IF IsSuccess(recognition) /\ HasDisplayText(text)
            THEN IF sttReq.language = "auto"
                 THEN [got EXCEPT !.pc = "detecting",
                                  !.detectedLanguage = sttReq.finalLanguage]
                 ELSE [got EXCEPT !.pc = "replied", !.status = 200, !.text = text,
                                  !.replyLanguage = LanguageOrAuto(sttReq.language),
                                  !.detectedLanguage = sttReq.finalLanguage]
            ELSE [got EXCEPT !.pc = "replied", !.status = 200, !.text = <<>>,
                             !.replyLanguage = LanguageOrAuto(sttReq.language),
                             !.error = "No speech detected"]
    /\ UNCHANGED <<ttsVars, sessVars, ssmlVars, trReq, wav, batch>>

\* lines 208-264: the language identification call returns and the response
\* is sent.  outcome: "reject" (fetch or json() throws, caught at line 254),
\* "notok" (!translatorResponse.ok), "nolang" (a body without a language), or
\* the language code of the body.
DetectReturns(outcome) ==
    /\ sttReq.pc = "detecting"
    /\ sttReq' = [sttReq EXCEPT
                    !.pc = "replied",
                    !.detect = outcome,
                    !.status = 200,
                    !.text = sttReq.displayText,
                    !.replyLanguage = LanguageOrAuto(sttReq.language),
                    !.detectedLanguage =
                        IF outcome \in DetectCodes THEN LocaleOf(outcome) ELSE @]
    /\ UNCHANGED <<ttsVars, sessVars, ssmlVars, trReq, wav, batch>>

\* the response was sent: the request is over
SttReply ==
    /\ sttReq.pc = "replied"
    /\ sttReq' = NoSttReq
    /\ UNCHANGED <<ttsVars, sessVars, ssmlVars, trReq, wav, batch>>

NextStt ==
    \/ \E language \in SttLanguages, hasAudio, hasKey \in BOOLEAN :
          PostStt(language, hasAudio, hasKey)
    \/ \E outcome \in {"reject", "notok", "badjson"} : SttProviderReturns(outcome, "", <<>>)
    \/ \E recognition \in RecognitionStatuses, text \in Transcripts :
          SttProviderReturns("ok", recognition, text)
    \/ \E outcome \in {"reject", "notok", "nolang"} \cup DetectCodes : DetectReturns(outcome)
    \/ SttReply

(***************************************************************************)
(* server routes: POST /api/translate                                      *)
(***************************************************************************)
\* language codes a request names as targets
TargetCodes == {"es", "fr"}

\* req.body.text: the empty string and a text
TranslateTexts == {<<>>, <<"h">>}

\* req.body.targetLangs: a value that is not an array, or an array of codes
TargetLists ==
    {[isArray |-> FALSE, items |-> <<>>]} \cup
    {[isArray |-> TRUE, items |-> items] :
        items \in UNION {[1..n -> TargetCodes] : n \in 0..MaxTargets}}

\* line 89: !text || !Array.isArray(targetLangs) || targetLangs.length === 0
BadTranslateInput(text, targetLangs) ==
    text = <<>> \/ ~targetLangs.isArray \/ Len(targetLangs.items) = 0

\* lines 99-102: { to: code, text: `[MOCK ${code}] ${text}` }
MockItem(code, text) == [to |-> code, text |-> <<"[MOCK ", code, "] ">> \o text]

\* the `to` parameters in the opposite order
ToParamsReversed(items) == [i \in 1..Len(items) |-> items[Len(items) + 1 - i]]

\* line 107: targetLangs.map(t => `&to=${t}`).join(''): the `to` parameters of
\* the provider URL, one per target, in the order of the request
ToParams(items) == items

\* one provider call for each target
FetchesPerTarget(items) == Len(items)

\* lines 109-117: the handler calls fetch once, with all the targets in the URL
FetchesFor(items) == 1

\* The translation provider answers a request with one translation per `to`
\* parameter, in the order of the parameters.
ProviderItem(code, text) == [to |-> code, text |-> <<code, ":">> \o text]

ProviderTranslations(toParams, text) ==
    [i \in 1..Len(toParams) |-> ProviderItem(toParams[i], text)]

NoTrReq ==
    [pc |-> "none", text |-> <<>>, targetLangs |-> [isArray |-> FALSE, items |-> <<>>],
     from |-> "", credentials |-> FALSE, toParams |-> <<>>, calls |-> 0,
     provider |-> "none", status |-> 0, translations |-> <<>>, error |-> ""]

InitTranslate == trReq = NoTrReq

\* lines 86-117: the request arrives; credentials: AZURE_TRANSLATOR_KEY and
\* AZURE_TRANSLATOR_REGION are both set.
PostTranslate(text, targetLangs, from, credentials) ==
    /\ trReq.pc = "none"
    /\ LET got == [NoTrReq EXCEPT !.text = text, !.targetLangs = targetLangs,
                                  !.from = from, !.credentials = credentials]
       IN trReq' =
            IF BadTranslateInput(text, targetLangs)
            THEN [got EXCEPT !.pc = "replied", !.status = 400,
                             !.error = "text/targetLangs required"]
            ELSE IF ~credentials
            THEN [got EXCEPT !.pc = "replied", !.status = 200,
                             !.translations =
                                 [i \in 1..Len(targetLangs.items) |->
                                     MockItem(targetLangs.items[i], text)]]
            ELSE [got EXCEPT !.pc = "calling",
                             !.toParams = ToParams(targetLangs.items),
                             !.calls = FetchesFor(targetLangs.items)]
    /\ UNCHANGED <<ttsVars, sessVars, ssmlVars, sttReq, wav, batch>>

\* lines 119-141: the provider call returns.  outcome: "reject" (fetch or
\* json() throws), "notok" (!response.ok), "malformed" (the body is not a
\* non-empty array), "ok".
TranslateProviderReturns(outcome) ==
    /\ trReq.pc = "calling"
    /\ trReq' =
         CASE outcome = "ok" ->
                [trReq EXCEPT !.pc = "replied", !.provider = outcome, !.status = 200,
                              !.translations = ProviderTranslations(trReq.toParams, trReq.text)]
           [] outcome = "notok" ->
                [trReq EXCEPT !.pc = "replied", !.provider = outcome, !.status = 401,
                              !.error = "Translation failed"]
           [] OTHER ->
                [trReq EXCEPT !.pc = "replied", !.provider = outcome, !.status = 500,
                              !.error = "exception"]
    /\ UNCHANGED <<ttsVars, sessVars, ssmlVars, sttReq, wav, batch>>

\* the response was sent: the request is over
TranslateReply ==
    /\ trReq.pc = "replied"
    /\ trReq' = NoTrReq
    /\ UNCHANGED <<ttsVars, sessVars, ssmlVars, sttReq, wav, batch>>

NextTranslate ==
    \/ \E text \in TranslateTexts, targetLangs \in TargetLists,
          from \in {"", "es"}, credentials \in BOOLEAN :
          PostTranslate(text, targetLangs, from, credentials)
    \/ \E outcome \in {"reject", "notok", "malformed", "ok"} : TranslateProviderReturns(outcome)
    \/ TranslateReply

(***************************************************************************)
(* enhanced-speech-interface.tsx: audioBufferToWav                         *)
(*                                                                         *)
(* A sample is a number of hundredths (50 is 0.5).  buffer.sampleRate /    *)
(* 16000 is kept as a fraction: for the rates and lengths of the model no  *)
(* quotient falls on a half except where the division is exact in floating *)
(* point too (8000 and 32000 Hz), so Math.round is computed exactly.       *)
(***************************************************************************)
\* buffer.sampleRate of the devices
SampleRates == {8000, 16000, 32000, 44100, 48000}

\* values of a sample: silence, the threshold itself, a voice, over the range
SampleValues == {0, 1, 50, -200}

\* buffer.getChannelData(0)
ChannelDatas == UNION {[1..n -> SampleValues] : n \in 0..MaxSamples}

\* Math.round(n / d) for n >= 0, d > 0: halves go up
RoundHalfUp(n, d) == (2 * n + d) \div (2 * d)

\* a length that is rounded up whenever it is no whole number
NewLengthCeil(sampleRate, length) ==
    (length * TargetSampleRate + sampleRate - 1) \div sampleRate

\* lines 105-106: ratio = sampleRate / 16000; newLength = Math.round(length / ratio)
NewLength(sampleRate, length) == RoundHalfUp(length * TargetSampleRate, sampleRate)

\* lines 138, 145, 154: Math.round(i * ratio)
SourceIndex(i, sampleRate) == RoundHalfUp(i * sampleRate, TargetSampleRate)

\* channelData[sourceIndex] || 0  (sourceIndex counts from 0)
SampleAt(channelData, sourceIndex) ==
    IF sourceIndex + 1 \in DOMAIN channelData THEN channelData[sourceIndex + 1] ELSE 0

\* the i-th sample of the resampled buffer
Resampled(channelData, sampleRate, i) == SampleAt(channelData, SourceIndex(i, sampleRate))

\* Math.abs(x) > threshold
Loud(sample) == (IF sample < 0 THEN -sample ELSE sample) > Threshold

LoudIndexes(channelData, sampleRate, newLength) ==
    {i \in 0..(newLength - 1) : Loud(Resampled(channelData, sampleRate, i))}

\* lines 136-143: the first index above the threshold, 0 when there is none
TrimStart(channelData, sampleRate, newLength) ==
    LET loud == LoudIndexes(channelData, sampleRate, newLength)
    IN IF loud = {} THEN 0 ELSE CHOOSE i \in loud : \A j \in loud : i <= j

\* the backward scan run forward: it stops at the first index above the threshold
TrimEndFromFront(channelData, sampleRate, newLength) ==
    LET loud == LoudIndexes(channelData, sampleRate, newLength)
    IN IF loud = {} THEN newLength - 1 ELSE CHOOSE i \in loud : \A j \in loud : i <= j

\* lines 136, 144-150: the last index above the threshold, newLength - 1 when
\* there is none
TrimEnd(channelData, sampleRate, newLength) ==
    LET loud == LoudIndexes(channelData, sampleRate, newLength)
    IN IF loud = {} THEN newLength - 1 ELSE CHOOSE i \in loud : \A j \in loud : i >= j

\* lines 155-156: clip to [-1, 1], scale by 0x8000 below zero and by 0x7FFF
\* from zero up; setInt16 drops the fraction
Quantize(sample) ==
    LET clipped == IF sample < -100 THEN -100 ELSE IF sample > 100 THEN 100 ELSE sample
    IN IF clipped < 0
       THEN -((-clipped * 32768) \div 100)
       ELSE (clipped * 32767) \div 100

NoWav ==
    [pc |-> "none", sampleRate |-> 0, channelData |-> <<>>, newLength |-> 0,
     byteLength |-> 0, riffSize |-> 0, declaredRate |-> 0, dataLength |-> 0,
     start |-> 0, end |-> 0, samples |-> <<>>]

InitWav == wav = NoWav

\* line 180: decodeAudioData hands over a buffer of the device's rate
DecodeAudio(sampleRate, channelData) ==
    /\ wav.pc = "none"
    /\ wav' = [NoWav EXCEPT !.pc = "decoded", !.sampleRate = sampleRate,
                            !.channelData = channelData]
    /\ UNCHANGED <<ttsVars, sessVars, ssmlVars, sttReq, trReq, batch>>

\* lines 103-161
AudioBufferToWav ==
    /\ wav.pc = "decoded"
    /\ LET newLength == NewLength(wav.sampleRate, Len(wav.channelData))
           start == TrimStart(wav.channelData, wav.sampleRate, newLength)
           end == TrimEnd(wav.channelData, wav.sampleRate, newLength)
       IN wav' = [wav EXCEPT
                    !.pc = "encoded",
                    !.newLength = newLength,
                    !.byteLength = HeaderBytes + newLength * 2,
                    !.riffSize = 36 + newLength * 2,
                    !.declaredRate = TargetSampleRate,
                    !.dataLength = newLength * 2,
                    !.start = start,
                    !.end = end,
                    !.samples = [k \in 1..(end - start + 1) |->
                                    Quantize(Resampled(wav.channelData, wav.sampleRate,
                                                       start + k - 1))]]
    /\ UNCHANGED <<ttsVars, sessVars, ssmlVars, sttReq, trReq, batch>>

\* the container was handed to arrayBufferToBase64: the encoder is free again
WavReturned ==
    /\ wav.pc = "encoded"
    /\ wav' = NoWav
    /\ UNCHANGED <<ttsVars, sessVars, ssmlVars, sttReq, trReq, batch>>

NextWav ==
    \/ \E sampleRate \in SampleRates, channelData \in ChannelDatas :
          DecodeAudio(sampleRate, channelData)
    \/ AudioBufferToWav
    \/ WavReturned

(***************************************************************************)
(* The routes file: POST /api/tts, a batch of items                        *)
(*                                                                         *)
(* An item is written as its language code; the route copies every other   *)
(* field of the item into the result unchanged.                            *)
(***************************************************************************)
ItemCodes == {"en", "fr"}

\* req.body.items when it is an array
ItemLists == UNION {[1..n -> ItemCodes] : n \in 0..MaxItems}

\* what the provider answers to the fetch of one item: "ok", a response that
\* is not ok ("notok"), a fetch that throws ("reject"), a body that cannot be
\* read ("badbody")
ItemOutcomes == {"ok", "notok", "reject", "badbody"}

\* line 299: the audio of the mock answer
MockAudio == "data:audio/mpeg;base64,"

\* lines 356-358: the data url made of the bytes the provider sent for the
\* fetch of item i
AudioOf(i) == "data:audio/mpeg;base64," \o ToString(i)

Pending == [code |-> "", audioUrl |-> "pending", error |-> ""]

\* lines 342-364: what the callback of item i returns
ItemResult(code, i, outcome) ==
    CASE outcome = "ok" -> [code |-> code, audioUrl |-> AudioOf(i), error |-> ""]
      [] outcome = "notok" -> [code |-> code, audioUrl |-> "null", error |-> "TTS failed: status"]
      [] OTHER -> [code |-> code, audioUrl |-> "null", error |-> "TTS generation failed"]

\* results put in the first free place, in the order the answers arrive
CollectByArrival(results, i, result) ==
    LET free == {j \in DOMAIN results : results[j] = Pending}
        first == CHOOSE j \in free : \A k \in free : j <= k
    IN [results EXCEPT ![first] = result]

\* line 324: Promise.all keeps the value of the i-th promise in place i
Collect(results, i, result) == [results EXCEPT ![i] = result]

NoBatch ==
    [pc |-> "none", items |-> <<>>, outcomes |-> <<>>, results |-> <<>>,
     status |-> 0, error |-> ""]

InitBatch == batch = NoBatch

\* lines 282-325: the request arrives.  isArray: req.body.items is an array,
\* hasKey: AZURE_SPEECH_KEY is set.  With a key every item's callback runs up
\* to its fetch.
PostTts(isArray, items, hasKey) ==
    /\ batch.pc = "none"
    /\ ~isArray => items = <<>>
    /\ batch' =
         IF ~isArray
         THEN [NoBatch EXCEPT !.pc = "replied", !.status = 400,
                              !.error = "Missing items array"]
         ELSE IF ~hasKey
         THEN [NoBatch EXCEPT !.pc = "replied", !.status = 200, !.items = items,
                              !.outcomes = [i \in DOMAIN items |-> "mock"],
                              !.results = [i \in DOMAIN items |->
                                  [code |-> items[i], audioUrl |-> MockAudio, error |-> ""]]]
         ELSE [NoBatch EXCEPT !.pc = "synthesizing", !.items = items,
                              !.outcomes = [i \in DOMAIN items |-> "none"],
                              !.results = [i \in DOMAIN items |-> Pending]]
    /\ UNCHANGED <<ttsVars, sessVars, ssmlVars, sttReq, trReq, wav>>

\* lines 332-364: the provider answers the fetch of item i, in any order
ItemReturns(i, outcome) ==
    /\ batch.pc = "synthesizing"
    /\ i \in DOMAIN batch.items
    /\ batch.outcomes[i] = "none"
    /\ batch' = [batch EXCEPT
                    !.outcomes[i] = outcome,
                    !.results = Collect(@, i, ItemResult(batch.items[i], i, outcome))]
    /\ UNCHANGED <<ttsVars, sessVars, ssmlVars, sttReq, trReq, wav>>

\* lines 324, 368: every promise settled; res.json({ items: results })
BatchReply ==
    /\ batch.pc = "synthesizing"
    /\ \A i \in DOMAIN batch.items : batch.outcomes[i] # "none"
    /\ batch' = [batch EXCEPT !.pc = "replied", !.status = 200]
    /\ UNCHANGED <<ttsVars, sessVars, ssmlVars, sttReq, trReq, wav>>

\* the response was sent: the request is over
BatchSent ==
    /\ batch.pc = "replied"
    /\ batch' = NoBatch
    /\ UNCHANGED <<ttsVars, sessVars, ssmlVars, sttReq, trReq, wav>>

NextBatch ==
    \/ \E isArray, hasKey \in BOOLEAN, items \in ItemLists : PostTts(isArray, items, hasKey)
    \/ \E i \in 1..MaxItems, outcome \in ItemOutcomes : ItemReturns(i, outcome)
    \/ BatchReply
    \/ BatchSent

(***************************************************************************)
(* Claims about the limiter and the synthesis cache                        *)
(***************************************************************************)
Fetching == {r \in Req : pc[r] = "fetching"}
Queued == {r \in Req : pc[r] = "queued"}
Finished(r) == pc[r] \in {"done", "failed"}
InFlight(r) == pc[r] \in {"queued", "fetching", "blob", "text"}

\* the step in which call r is made / in which r's provider call is issued
Called(r) == nextId = r /\ nextId' = r + 1
Started(r) == r \in fetched' /\ r \notin fetched
\* the step in which r's provider call fails: the fetch rejects, or it
\* resolves with a response that is not ok
ProviderFailed(r) == pc[r] = "fetching" /\ pc'[r] \in {"text", "failed"}

\* C1: in every reachable state the number of provider calls inside the
\* limiter is the active counter, and it never exceeds the limit of 3.
ThmC1 ==
    /\ active = Cardinality(Fetching)
    /\ active <= Limit
    /\ Cardinality(Fetching) <= Limit

\* a fourth request arrived while three provider calls were running
WitC1 == active = Limit /\ Cardinality(Fetching) = Limit /\ queue # <<>>

\* C2: a call that misses the cache starts its provider call in the same step
\* when fewer than 3 are active and is appended to the queue otherwise; a
\* queued request that starts is the oldest queued one, and a request that
\* starts on arrival finds no request queued.
ThmC2 ==
    [][\A r \in Req :
          /\ (Called(r) /\ ~CacheHas(audioCache, KeyOf(arg'[r]))) =>
                IF active < Limit
                THEN Started(r) /\ pc'[r] = "fetching" /\ queue' = queue
                ELSE /\ ~Started(r) /\ pc'[r] = "queued"
                     /\ Len(queue') = Len(queue) + 1
                     /\ queue'[Len(queue')] = r
                     /\ SubSeq(queue', 1, Len(queue)) = queue
          /\ Started(r) =>
                /\ \A q \in Queued : r <= q
                /\ pc[r] = "queued" => (queue # <<>> /\ r = Head(queue))
                /\ pc[r] = "new" => Queued = {}
      ]_vars

\* the limiter is full, a request beyond the first three holds a slot that one
\* of them gave back, and a younger request waits at the head of the queue
WitC2 ==
    \E r, q \in Req :
        /\ r < q
        /\ Limit < r
        /\ pc[r] = "fetching"
        /\ pc[q] = "queued"
        /\ queue = <<q>>
        /\ active = Limit
        /\ \E o \in 1..Limit : pc[o] \notin {"new", "queued", "fetching"}

SameKeyDone(k) == {q \in Req : pc[q] = "done" /\ KeyOf(arg[q]) = k}

\* C3 as stated: once a call for a triple has returned, every later call for
\* the same triple returns the result that call returned.
CexC3 ==
    [][\A r \in Req : Called(r) =>
          \A q \in Req : (pc[q] = "done" /\ arg[q] = arg'[r]) => ret'[r] = ret[q]
      ]_vars

\* C3 amended: once a call for a triple has returned, a later call for the
\* same triple issues no provider call and returns at once the blob the cache
\* holds for the key, which is the blob of a completed provider call for that
\* key; it is the result of the first call whenever only one provider call for
\* the key has completed.  A cache entry is never removed.
ThmC3 ==
    [][/\ \A r \in Req : (Called(r) /\ \E q \in Req : pc[q] = "done" /\ arg[q] = arg'[r]) =>
             LET k == KeyOf(arg'[r]) IN
             /\ fetched' = fetched
             /\ queue' = queue /\ active' = active
             /\ pc'[r] = "done"
             /\ CacheHas(audioCache, k)
             /\ ret'[r] = audioCache[k]
             /\ \E q \in SameKeyDone(k) : q \in fetched /\ ret'[r] = BlobOf(q)
             /\ Cardinality(SameKeyDone(k) \cap fetched) = 1 =>
                    \A q \in SameKeyDone(k) : ret'[r] = ret[q]
       /\ \A k \in DOMAIN audioCache : k \in DOMAIN audioCache'
      ]_vars

\* a second call for a triple was served from the cache with the blob of the first
WitC3 ==
    \E r, q \in Req :
        /\ q < r
        /\ arg[q] = arg[r]
        /\ pc[q] = "done" /\ q \in fetched
        /\ pc[r] = "done" /\ r \notin fetched
        /\ ret[r] = ret[q]

\* C4: a provider call that fails writes nothing to the cache, fails its own
\* caller only, gives its slot back (to the head of the queue if there is
\* one), leaves every other request as it was, and every other request in
\* flight still completes, a successful one with the blob of its own provider call.
ThmC4 ==
    /\ [][\A r \in Req : ProviderFailed(r) =>
             /\ audioCache' = audioCache
             /\ ret' = ret
             /\ \A q \in Req \ {r} : pc'[q] = "failed" => pc[q] = "failed"
             /\ r \notin {q \in Req : pc'[q] = "fetching"}
             /\ active' = Cardinality({q \in Req : pc'[q] = "fetching"})
             /\ IF queue # <<>>
                THEN /\ Started(Head(queue)) /\ queue' = Tail(queue)
                     /\ active' = active
                     /\ \A q \in Req \ {r, Head(queue)} : pc'[q] = pc[q]
                ELSE /\ active' = active - 1
                     /\ \A q \in Req \ {r} : pc'[q] = pc[q]
         ]_vars
    /\ [][\A r \in Req : (pc[r] = "text" /\ pc'[r] # "text") =>
             /\ pc'[r] = "failed"
             /\ audioCache' = audioCache
             /\ \A q \in Req \ {r} : pc'[q] = pc[q]
         ]_vars
    /\ [](\A r \in Req : pc[r] \in {"text", "failed"} => ~CacheHas(audioCache, KeyOf(arg[r])))
    /\ [](\A r \in Req : (pc[r] = "done" /\ r \in fetched) =>
             ret[r] = BlobOf(r) /\ audioCache[KeyOf(arg[r])] = BlobOf(r))
    /\ \A r \in Req : InFlight(r) ~> Finished(r)

\* a provider call failed while another request was queued, and that request
\* went on to complete successfully
WitC4 ==
    \E r, q \in Req :
        /\ r < q
        /\ Limit < q
        /\ pc[r] = "failed"
        /\ pc[q] = "done"
        /\ \A o \in 1..Limit : o # r => pc[o] = "fetching"

\* K requests were issued at once: none of them has returned yet
Burst(k) == nextId = k + 1 /\ \A r \in 1..k : pc[r] \in {"fetching", "queued"}

\* C5: when K > 3 distinct requests are in flight at once and every provider
\* call returns, all K of them complete, and a queued request never starts
\* while an older one is still queued.
ThmC5 ==
    /\ \A k \in (Limit + 1)..MaxReq : Burst(k) ~> (\A r \in 1..k : Finished(r))
    /\ [][\A r \in Req : (Started(r) /\ pc[r] = "queued") =>
             \A q \in Req : (pc[q] = "queued" /\ q # r) => r < q]_vars

\* all requests of the largest burst are in flight, those beyond the limit queued
WitC5 == Burst(MaxReq) /\ Len(queue) = MaxReq - Limit /\ MaxReq > Limit

\* C11: a call is served from the cache only if an earlier call with exactly
\* the same text, voice and locale fetched its blob and returned it, and it
\* gets that triple's blob; calls with different triples never hold the same
\* blob.
CexC11 ==
    [][/\ \A r \in Req : (Called(r) /\ pc'[r] = "done") =>
             \E q \in Req : /\ pc[q] = "done" /\ q \in fetched
                            /\ arg[q] = arg'[r]
                            /\ ret'[r] \in {BlobOf(o) : o \in {o \in fetched : arg[o] = arg'[r]}}
       /\ \A r, q \in Req : (pc'[r] = "done" /\ pc'[q] = "done" /\ arg'[r] # arg'[q]) =>
             ret'[r] # ret'[q]
      ]_vars

(***************************************************************************)
(* Claims about the recording session                                      *)
(***************************************************************************)
\* the chains that hold a recorder or run processRecordedAudio
Capturing == {c \in Chain : cpc[c] \in {"recording", "stopping"} \cup Pipeline}

\* C6: at most one recording or pipeline run exists at any time.
CexC6 == Cardinality(Capturing) <= 1

\* C7 as stated: a start request made in state done begins a new capture.
CexC7 ==
    [][(recordingState = "done" /\ StartRecording) =>
          \E c \in Chain : cpc[c] = "none" /\ cpc'[c] = "mic"]_vars

\* C7 amended: in state done a start request returns at the guard: no capture
\* begins and the session stays as it is; listening follows done only when a
\* startRecording() accepted earlier, in idle, gets the microphone.
ThmC7 ==
    [][recordingState = "done" =>
          /\ \A c \in Chain : cpc[c] = "none" => cpc'[c] = "none"
          /\ StartRecording =>
                /\ lastStart' = <<"done", "ignored">>
                /\ recordingState' = "done"
                /\ cpc' = cpc
                /\ mediaRecorderRef' = mediaRecorderRef
                /\ currentMessage' = currentMessage
          /\ recordingState' = "listening" =>
                \E c \in Chain : cpc[c] = "mic" /\ cpc'[c] = "recording"
      ]_vars

\* a start request was made in state done and the session is still in done
WitC7 ==
    /\ recordingState = "done"
    /\ lastStart = <<"done", "ignored">>
    /\ \A c \in Chain : cpc[c] \in {"none", "finished"}

\* a transcript that is empty or made of spaces only
AllSpaces(text) == \A i \in 1..Len(text) : text[i] = " "

Ended == {"aborted", "nospeech", "finished"}

\* C8: a chain whose transcript is empty or whitespace, or one of whose stages
\* throws, sets the state to error in that step, stops there, and never sets
\* the state to done.
ThmC8 ==
    /\ [](\A c \in Chain : (sttText[c] # NoText /\ AllSpaces(sttText[c])) => cpc[c] = "nospeech")
    /\ [][\A c \in Chain :
             /\ (cpc[c] \in Pipeline /\ cpc'[c] \in {"aborted", "nospeech"}) =>
                    recordingState' = "error"
             /\ cpc[c] \in {"aborted", "nospeech"} => cpc'[c] = cpc[c]
             /\ (cpc[c] \notin Ended /\ cpc'[c] = "finished") =>
                    cpc[c] = "showing" /\ recordingState' = "done"
         ]_vars
    /\ [][(recordingState' = "done" /\ recordingState # "done") =>
             \E c \in Chain : cpc[c] = "showing" /\ cpc'[c] = "finished"]_vars

\* a whitespace transcript sent the session to error
WitC8 ==
    \E c \in Chain :
        /\ sttText[c] = <<" ">>
        /\ cpc[c] = "nospeech"
        /\ recordingState = "error"

\* the step in which chain c reports an error
ReportsError(c) == cpc[c] \notin Ended /\ cpc'[c] \in {"aborted", "nospeech"}

\* C9: each entry into error emits one error notification and arms the retry,
\* and the state that follows error is idle, entered with one retry-ready
\* notification.
CexC9 ==
    [][/\ \A c \in Chain : ReportsError(c) =>
             recordingState' = "error" /\ Len(emitted') = 1 /\ retryPending'
       /\ (recordingState = "error" /\ recordingState' # "error") =>
             recordingState' = "idle" /\ emitted' = <<"Ready to try again">>
      ]_vars

\* a bubble arrives while another one is shown
BubbleArrives ==
    /\ currentMessage # NoMessage
    /\ currentMessage' # NoMessage
    /\ currentMessage' # currentMessage

\* C18: when a new bubble arrives while a current bubble is shown, the bubble
\* that was current becomes the previous (fading) bubble and a 300 ms timeout
\* is armed to discard it.
CexC18 ==
    [][BubbleArrives => (previousMessage' = currentMessage /\ fades' = fades + 1)]_vars

\* the transitions of the session state named by the state machine
ClaimedTransitions ==
    { <<"idle", "listening">>, <<"listening", "translating">>,
      <<"translating", "done">>, <<"translating", "error">>, <<"error", "idle">> }

\* C19 as stated: the session state changes only along idle -> listening,
\* listening -> translating, translating -> done, translating -> error and
\* error -> idle.
CexC19 ==
    [][recordingState' # recordingState =>
          <<recordingState, recordingState'>> \in ClaimedTransitions]_vars

\* C19 amended: the session state changes only in these steps: to listening
\* when the microphone is granted to a startRecording() that passed the guard
\* in idle; to translating when a recorder stops; to done when the 800 ms
\* timeout after synthesis fires; to error when the microphone is denied, the
\* transcript is blank or a stage throws; to idle when the retry timeout
\* fires, with the retry notification, or by resetToIdle while the english
\* bubble and its audio are shown.  A start request never changes the state.
ThmC19 ==
    [][/\ recordingState' # recordingState =>
             \/ /\ recordingState' = "listening"
                /\ \E c \in Chain : cpc[c] = "mic" /\ cpc'[c] = "recording"
             \/ /\ recordingState' = "translating"
                /\ \E c \in Chain : cpc[c] = "stopping" /\ cpc'[c] = "decode"
             \/ /\ recordingState' = "done"
                /\ \E c \in Chain : cpc[c] = "showing" /\ cpc'[c] = "finished"
             \/ /\ recordingState' = "error"
                /\ \E c \in Chain : /\ cpc[c] \in {"mic", "decode", "stt", "translate", "tts"}
                                   /\ cpc'[c] \in {"aborted", "nospeech"}
                /\ retryPending'
             \/ /\ recordingState' = "idle"
                /\ \/ retryPending /\ ~retryPending' /\ emitted' = <<"Ready to try again">>
                   \/ /\ currentMessage # NoMessage /\ currentMessage[1] = "english"
                      /\ englishAudioBlob # 0
                      /\ currentMessage' = NoMessage /\ englishAudioBlob' = 0
       /\ StartRecording => recordingState' = recordingState
      ]_vars

\* the session went from done to idle by resetToIdle, and from idle to error
\* by a denied microphone
WitC19 ==
    /\ recordingState = "error"
    /\ lastStart = <<"idle", "accepted">>
    /\ emitted = <<"Microphone access denied">>
    /\ currentMessage = NoMessage
    /\ \E c, d \in Chain : cpc[c] = "finished" /\ cpc[d] = "aborted"

(***************************************************************************)
(* Claims about the speech-markup documents                                *)
(***************************************************************************)
\* the part of a document between the elements of the envelope
Embedded(doc, route) ==
    IF route = "tts-single"
    THEN SubSeq(doc, Len(VoiceOpen) + Len(ProsodyOpen) + 1,
                Len(doc) - Len(ProsodyClose) - Len(VoiceClose))
    ELSE SubSeq(doc, Len(VoiceOpen) + 1, Len(doc) - Len(VoiceClose))

EntityAt(body, i) ==
    \E e \in {Amp, Lt, Gt, Quot, Apos} :
        i + Len(e) - 1 <= Len(body) /\ SubSeq(body, i, i + Len(e) - 1) = e

NoRawMarkup(body) ==
    \A i \in 1..Len(body) :
        /\ body[i] \notin {"<", ">"}
        /\ body[i] = "&" => EntityAt(body, i)

\* C10: on every route the text embedded in the document sent to the provider
\* holds no raw <, > or &.
CexC10 == ssmlRoute # "none" => NoRawMarkup(Embedded(ssmlDoc, ssmlRoute))

(***************************************************************************)
(* Claims about audioBufferToWav                                           *)
(***************************************************************************)
Encoded == wav.pc = "encoded"

\* the number of samples in the range kept by silence trimming
KeptSamples == wav.end - wav.start + 1

\* C15: the data length declared in the header and the number of sample bytes
\* that follow the 44-byte header are both twice the number of samples of the
\* range kept by silence trimming.
CexC15 ==
    Encoded =>
        /\ wav.dataLength = 2 * KeptSamples
        /\ wav.byteLength - HeaderBytes = 2 * KeptSamples

\* C16 as stated: the declared rate is 16000 and the output is never longer
\* than the input: output samples x native rate <= input samples x 16000.
CexC16 ==
    Encoded =>
        /\ wav.declaredRate = TargetSampleRate
        /\ Len(wav.samples) * wav.sampleRate <= Len(wav.channelData) * TargetSampleRate

\* C16 amended: the declared rate is 16000 and the output length is the input
\* length scaled by 16000 / native rate and rounded to the nearest whole
\* number, halves up: the output is longer than the input by at most half an
\* output sample, and the samples written are no more than that length.
ThmC16 ==
    Encoded =>
        /\ wav.declaredRate = TargetSampleRate
        /\ 2 * wav.newLength * wav.sampleRate
              <= 2 * Len(wav.channelData) * TargetSampleRate + wav.sampleRate
        /\ 2 * wav.newLength * wav.sampleRate
              > 2 * Len(wav.channelData) * TargetSampleRate - wav.sampleRate
        /\ Len(wav.samples) <= wav.newLength
        /\ wav.dataLength = 2 * wav.newLength

\* an input whose scaled length was rounded up
WitC16 ==
    /\ Encoded
    /\ wav.newLength * wav.sampleRate > Len(wav.channelData) * TargetSampleRate
    /\ Len(wav.samples) = wav.newLength

\* C17: for a non-empty resampled buffer the range kept is 0 <= start <= end
\* <= last, holds every resampled sample above the threshold, and every sample
\* of it is written, in order, inside the container; a buffer with no sample
\* above the threshold keeps start = 0 and end = last.
ThmC17 ==
    (Encoded /\ wav.newLength >= 1) =>
        LET loud == LoudIndexes(wav.channelData, wav.sampleRate, wav.newLength) IN
        /\ 0 <= wav.start /\ wav.start <= wav.end /\ wav.end <= wav.newLength - 1
        /\ \A i \in loud : wav.start <= i /\ i <= wav.end
        /\ Len(wav.samples) = KeptSamples
        /\ \A k \in 1..KeptSamples :
              wav.samples[k] =
                  Quantize(Resampled(wav.channelData, wav.sampleRate, wav.start + k - 1))
        /\ HeaderBytes + 2 * Len(wav.samples) <= wav.byteLength
        /\ loud = {} =>
              /\ wav.start = 0 /\ wav.end = wav.newLength - 1
              /\ Len(wav.samples) >= 1

\* silence was cut at both ends and a quiet sample between two voiced ones was kept
WitC17 ==
    /\ Encoded
    /\ wav.start > 0
    /\ wav.end < wav.newLength - 1
    /\ wav.end >= wav.start + 2
    /\ \E i \in (wav.start + 1)..(wav.end - 1) :
          ~Loud(Resampled(wav.channelData, wav.sampleRate, i))

(***************************************************************************)
(* Claims about the server routes                                          *)
(***************************************************************************)
\* the response to a request with language "auto" that carries a transcript
AutoReplied ==
    /\ sttReq.pc = "replied"
    /\ sttReq.language = "auto"
    /\ sttReq.status = 200
    /\ sttReq.text # <<>>

\* C12: a request with language "auto" that yields a transcript was recognised
\* with the bootstrap tag en-US, the identification call was made, and the
\* detected language of the response is en-US only when the identification
\* call itself answered English.
CexC12 ==
    (AutoReplied /\ sttReq.provider = "ok") =>
        /\ sttReq.finalLanguage = BootstrapTag
        /\ sttReq.detect # "none"
        /\ sttReq.detectedLanguage = BootstrapTag => sttReq.detect = "en"

\* the recognition provider or the transport to it failed: the call threw,
\* answered with a status that is not ok or with a body that is not JSON, or
\* answered that recognition ended in an error
RecognitionFailed ==
    \/ sttReq.provider \in {"reject", "notok", "badjson"}
    \/ sttReq.provider = "ok" /\ sttReq.recognition = "Error"

\* recognition worked and heard nothing: no transcript, or whitespace only
NothingHeard ==
    /\ sttReq.provider = "ok"
    /\ sttReq.recognition # "Error"
    /\ ~HasDisplayText(sttReq.displayText)

\* C13: a recognition that heard nothing is answered with status 200, an empty
\* text and "No speech detected"; a failure of the provider or of the
\* transport is answered with an error status, never as "No speech detected".
CexC13 ==
    sttReq.pc = "replied" =>
        /\ NothingHeard =>
              /\ sttReq.status = 200
              /\ sttReq.text = <<>>
              /\ sttReq.error = "No speech detected"
        /\ RecognitionFailed =>
              /\ sttReq.status >= 400
              /\ sttReq.error # "No speech detected"

\* a translate request answered with status 200
TranslateOk == trReq.pc = "replied" /\ trReq.status = 200

\* the request passes the check of line 89
ValidTranslate ==
    trReq.pc # "none" /\ ~BadTranslateInput(trReq.text, trReq.targetLangs)

\* C14: a translate request answered with status 200 had a non-empty text and
\* a non-empty target list [c1..cn]; the answer has exactly n items, the i-th
\* with code ci; without provider credentials the i-th item is the mock item
\* of ci and the text.
ThmC14 ==
    TranslateOk =>
        LET items == trReq.targetLangs.items IN
        /\ ValidTranslate
        /\ Len(trReq.translations) = Len(items)
        /\ \A i \in 1..Len(items) : trReq.translations[i].to = items[i]
        /\ ~trReq.credentials =>
              /\ trReq.calls = 0
              /\ \A i \in 1..Len(items) :
                    trReq.translations[i] = MockItem(items[i], trReq.text)

\* the provider translated into two languages, asked for in the order fr, es
WitC14 ==
    /\ TranslateOk
    /\ trReq.credentials
    /\ trReq.provider = "ok"
    /\ trReq.targetLangs.items = <<"fr", "es">>

\* C20 as stated: every valid translate request makes exactly one provider
\* call; an invalid one is answered with status 400 and makes none.
CexC20 ==
    trReq.pc = "replied" =>
        IF ValidTranslate
        THEN trReq.calls = 1
        ELSE trReq.status = 400 /\ trReq.calls = 0

\* C20 amended: a valid translate request makes exactly one provider call,
\* whatever the number of targets, when the provider credentials are
\* configured, and none when they are not (it is answered with the mock
\* items); no request makes more than one call; an invalid one is answered
\* with status 400 and makes none.
ThmC20 ==
    /\ trReq.calls <= 1
    /\ (trReq.pc \in {"calling", "replied"} /\ ValidTranslate /\ trReq.credentials) =>
          /\ trReq.calls = 1
          /\ trReq.toParams = trReq.targetLangs.items
    /\ (trReq.pc # "none" /\ ValidTranslate /\ ~trReq.credentials) =>
          /\ trReq.calls = 0
          /\ trReq.pc = "replied" /\ trReq.status = 200
    /\ (trReq.pc # "none" /\ ~ValidTranslate) =>
          /\ trReq.pc = "replied" /\ trReq.status = 400
          /\ trReq.calls = 0
          /\ trReq.translations = <<>>

\* a request with the longest target list was answered after one provider call
WitC20 ==
    /\ trReq.pc = "replied"
    /\ trReq.credentials
    /\ Len(trReq.targetLangs.items) = MaxTargets /\ MaxTargets > 1
    /\ trReq.calls = 1
    /\ trReq.status = 200

(***************************************************************************)
(* The order of the stages of one utterance                                *)
(***************************************************************************)
\* the chain ended without an english bubble
Failed(c) == cpc[c] \in {"aborted", "nospeech"}

\* chain c arrives at position p in this step
Arrives(c, p) == cpc[c] # p /\ cpc'[c] = p

StageOrder ==
    /\ \A c \in Chain :
        /\ Arrives(c, "stt") => cpc[c] = "decode"
        /\ Arrives(c, "translate") => cpc[c] = "stt" /\ HasSpeech(sttText'[c])
        /\ Arrives(c, "tts") => cpc[c] = "translate"
        /\ Arrives(c, "showing") => cpc[c] = "tts" /\ englishAudioBlob' = c
        /\ Failed(c) => cpc'[c] = cpc[c]
    /\ recordingState' = "done" /\ recordingState # "done"
          => \E c \in Chain : cpc[c] = "showing" /\ cpc'[c] = "finished"

\* C21: within one utterance recognition is requested only after the encoding
\* returned, translation only after recognition returned a transcript that is
\* not empty, synthesis only after translation returned, and done is set only
\* after synthesis returned; a chain that failed or heard nothing never moves
\* to a later stage.
ThmC21 == [][StageOrder]_vars

\* synthesis returned for a chain whose student bubble is shown, done not yet set
WitC21 ==
    \E c \in Chain :
        /\ cpc[c] = "showing"
        /\ englishAudioBlob = c
        /\ currentMessage = <<"student", c>>
        /\ recordingState = "translating"

(***************************************************************************)
(* The end of a recording                                                  *)
(***************************************************************************)
\* the positions of a chain in the order startRecording and
\* processRecordedAudio pass them
Rank(position) ==
    CASE position = "none" -> 0
      [] position = "mic" -> 1
      [] position = "recording" -> 2
      [] position = "stopping" -> 3
      [] position = "decode" -> 4
      [] position = "stt" -> 5
      [] position = "translate" -> 6
      [] position = "tts" -> 7
      [] position = "showing" -> 8
      [] OTHER -> 9

EndsOnce ==
    \A c \in Chain :
        /\ cpc'[c] # cpc[c] => Rank(cpc'[c]) > Rank(cpc[c])
        /\ Arrives(c, "stopping") => cpc[c] = "recording"
        /\ Arrives(c, "decode") => cpc[c] = "stopping"
        /\ cpc[c] = "stopping" /\ cpc'[c] # "stopping" => cpc'[c] = "decode"

\* C22: a recorder is stopped once, by the 4 s timeout or by stopRecording,
\* whichever comes first, and the other one then changes nothing; a stopped
\* recorder hands over one blob and starts one processRecordedAudio run; from
\* listening the session always gets to translating.
ThmC22 ==
    /\ [][EndsOnce]_vars
    /\ (recordingState = "listening") ~> (recordingState = "translating")

\* stopRecording stopped a recorder whose 4 s timeout is still armed
WitC22 ==
    \E c \in Chain :
        /\ cpc[c] = "stopping"
        /\ autoStop[c]
        /\ mediaRecorderRef = c
        /\ recordingState = "listening"

(***************************************************************************)
(* Provider calls that never return                                        *)
(***************************************************************************)
\* chain c waits for a call of processRecordedAudio to return
Awaiting(c) == cpc[c] \in {"decode", "stt", "translate", "tts"}

\* the awaited call of chain c returns or throws in this step
AwaitEnds(c) == Awaiting(c) /\ cpc'[c] # cpc[c]

\* the 800 ms timeout armed after synthesis returned fires for chain c
TimerShows(c) == cpc[c] = "showing" /\ cpc'[c] = "finished"

\* C23 (as stated): while a recognition, translation or synthesis call has not
\* returned the session stays in translating: translating is left only in a
\* step in which an awaited call returns or throws, or in which the 800 ms
\* timeout that follows the synthesis fires.
CexC23 ==
    [][ recordingState = "translating" /\ recordingState' # "translating"
           => \E c \in Chain : AwaitEnds(c) \/ TimerShows(c) ]_vars

(***************************************************************************)
(* Calls for one key racing each other                                     *)
(***************************************************************************)
RaceStep ==
    \A r \in Req :
        /\ Called(r) /\ ~CacheHas(audioCache, KeyOf(arg'[r]))
              => /\ pc'[r] \in {"fetching", "queued"}
                 /\ pc'[r] = "fetching" => r \in fetched' /\ active' = active + 1
        /\ pc[r] = "queued" /\ pc'[r] # "queued"
              => pc'[r] = "fetching" /\ r \in fetched' /\ r \notin fetched
        /\ pc[r] = "blob" /\ pc'[r] = "done"
              => /\ r \in fetched
                 /\ ret'[r] = BlobOf(r)
                 /\ audioCache' = [k \in {KeyOf(arg[r])} |-> BlobOf(r)]

\* C24: tts() is not single-flight.  A call for a triple that is not in the
\* cache makes its own provider call even while another call for the same
\* triple is pending, every provider call under way holds one slot of the
\* limiter, every such call completes, and when a call stores its blob the
\* cache holds one entry for the key: the blob of the call that finished last.
ThmC24 ==
    /\ [][RaceStep]_vars
    /\ [](active = Cardinality(Fetching) /\ Cardinality(DOMAIN audioCache) <= 1)
    /\ \A r \in Req : InFlight(r) ~> Finished(r)

\* two calls for one triple both called the provider; the one called first
\* finished last and its blob is the one the cache holds
WitC24 ==
    \E r, q \in Req :
        /\ r < q
        /\ arg[r] = arg[q]
        /\ {r, q} \subseteq fetched
        /\ pc[r] = "done" /\ pc[q] = "done"
        /\ ret[q] = BlobOf(q)
        /\ audioCache[KeyOf(arg[r])] = BlobOf(r)

(***************************************************************************)
(* The locale of a detected language                                       *)
(***************************************************************************)
\* the codes lines 230-244 list
TableCodes == {"es", "fr", "ar", "fa", "ru", "zh", "it", "pt", "nl", "tr", "da", "lv", "en"}

\* C25: for every code the identification call answers with, the locale the
\* route reports is the entry of the table when the code is in the table and
\* otherwise the code, a hyphen and the code in upper case; every code gets
\* one locale.
ThmC25 ==
    (sttReq.pc = "replied" /\ sttReq.detect \in DetectCodes) =>
        /\ sttReq.detect \in TableCodes => sttReq.detectedLanguage = langMap[sttReq.detect]
        /\ sttReq.detect \notin TableCodes =>
               sttReq.detectedLanguage = sttReq.detect \o "-" \o ToUpperCase(sttReq.detect)
        /\ sttReq.detectedLanguage \in {"es-ES", "en-US", "zh-CN", "de-DE"}

\* a code outside the table was detected and reported with its guessed locale
WitC25 ==
    /\ sttReq.pc = "replied"
    /\ sttReq.language = "auto"
    /\ sttReq.detect = "de"
    /\ sttReq.detectedLanguage = "de-DE"

(***************************************************************************)
(* The limiter keeps its slots busy                                        *)
(***************************************************************************)
\* a provider call was issued for r and has not settled
Running(r) == r \in fetched /\ pc[r] = "fetching"

\* C26: the limiter is work-conserving: while the queue is not empty exactly
\* 3 calls are active; active is the number of calls started and not yet
\* settled and is never negative; the queue holds the calls that wait, and
\* when no call is pending active is 0 and the queue is empty.
ThmC26 ==
    /\ queue # <<>> => active = 3
    /\ active = Cardinality({r \in Req : Running(r)})
    /\ active >= 0
    /\ {queue[i] : i \in 1..Len(queue)} = Queued
    /\ (\A r \in Req : pc[r] \notin {"queued", "fetching"}) => active = 0 /\ queue = <<>>

\* a call waits although a call failed and gave its slot back: the slot went
\* to the waiter that was first in the queue
WitC26 ==
    /\ queue # <<>>
    /\ active = 3
    /\ Cardinality(fetched) = 4
    /\ \E r \in fetched : pc[r] = "failed"

(***************************************************************************)
(* The resampling reads inside the buffer                                  *)
(***************************************************************************)
\* the source index of output sample i lies inside the input buffer
Inside(i) == SourceIndex(i, wav.sampleRate) + 1 \in DOMAIN wav.channelData

\* C27 (as stated): for every native sample rate and input length, every
\* output index below the output length maps to a source index inside the
\* input buffer.
CexC27 == wav.pc = "encoded" => \A i \in 0..(wav.newLength - 1) : Inside(i)

(***************************************************************************)
(* What is shown and held in done                                          *)
(***************************************************************************)
\* the chains that ended with the 800 ms callback
Shown == {c \in Chain : cpc[c] = "finished"}

\* the utterance that was shown last is the one of the chain whose callback
\* ran last; with one chain at a time that is the highest chain shown
LatestChain == CHOOSE c \in Shown : \A d \in Shown : d <= c

\* C28 (as stated): in every state with state done the current bubble is the
\* english bubble of the latest utterance and the audio blob synthesized for
\* that utterance is held.
CexC28 ==
    recordingState = "done" =>
        /\ Shown # {}
        /\ currentMessage = <<"english", LatestChain>>
        /\ englishAudioBlob = LatestChain

(***************************************************************************)
(* A translation response without a text                                   *)
(***************************************************************************)
\* the english text of chain c is the placeholder of line 211
Untranslated(text) == text = EnglishTextOf("")

\* C29 (as stated): a translation response with no item or with an empty text
\* is never synthesized and never shown: tts() is called and done is entered
\* only with a translated text that is not empty.
CexC29 ==
    [][\A c \in Chain :
          /\ Arrives(c, "tts") => ~Untranslated(englishText'[c])
          /\ TimerShows(c) /\ recordingState' = "done" => ~Untranslated(englishText[c])
      ]_vars

(***************************************************************************)
(* The batch synthesis route answers item by item                          *)
(***************************************************************************)
ItemFailed(outcome) == outcome \in {"notok", "reject", "badbody"}

\* the result in place i is the one of item i
ResultOfItem(i) ==
    LET result == batch.results[i]
        outcome == batch.outcomes[i]
    IN /\ result.code = batch.items[i]
       /\ ItemFailed(outcome) => result.audioUrl = "null" /\ result.error # ""
       /\ outcome = "ok" => result.audioUrl = AudioOf(i) /\ result.error = ""
       /\ outcome = "mock" => result.audioUrl = MockAudio /\ result.error = ""

\* a result, once there, stays as it is until the response is sent
ResultsKept ==
    batch'.pc # "none" =>
        \A j \in DOMAIN batch.results :
            batch.results[j] # Pending =>
                j \in DOMAIN batch'.results /\ batch'.results[j] = batch.results[j]

\* C30: the response of the batch route to an items array has status 200 and
\* one result per requested item in the order of the request; an item whose
\* provider call failed has a null audio and an error, and the failure
\* neither changes nor removes the result of another item.
ThmC30 ==
    /\ [][ResultsKept]_vars
    /\ []((batch.pc = "replied" /\ batch.status # 400) =>
            /\ batch.status = 200
            /\ Len(batch.results) = Len(batch.items)
            /\ \A i \in DOMAIN batch.items : ResultOfItem(i))

\* a response in which the first item failed and a later item has its audio
WitC30 ==
    /\ batch.pc = "replied"
    /\ Len(batch.items) > 1
    /\ ItemFailed(batch.outcomes[1])
    /\ batch.outcomes[2] = "ok"
    /\ batch.results[2].audioUrl = AudioOf(2)

Init ==
    /\ InitTts /\ InitSession /\ InitSsml /\ InitStt /\ InitTranslate /\ InitWav
    /\ InitBatch

\* tts() called with any inputs, in any interleaving with the provider's answers
Next == NextTts

Spec == Init /\ [][Next]_vars

\* tts() called with triples that hold the separator of the key
SpecKeys == Init /\ [][KeysNext]_vars

\* distinct requests, and every provider call eventually returns
FairBurst == Init /\ [][BurstNext]_vars /\ WF_vars(Returns)

\* calls for one triple racing each other, and every provider call eventually returns
FairRace == Init /\ [][RaceNext]_vars /\ WF_vars(Returns)

\* one EnhancedSpeechInterface component, its user, its timers and its providers
SpecSession == Init /\ [][NextSession]_vars

\* the same component; an armed 4 s timeout fires and a stopped recorder
\* delivers its stop event
FairSession ==
    /\ Init /\ [][NextSession]_vars
    /\ \A c \in Chain : WF_vars(AutoStop(c)) /\ WF_vars(OnStop(c))

\* synthesis requests with any text on the three routes
SpecSsml == Init /\ [][NextSsml]_vars

\* one /api/stt request after the other, with every answer of the providers
SpecStt == Init /\ [][NextStt]_vars

\* one /api/translate request after the other
SpecTranslate == Init /\ [][NextTranslate]_vars

\* one buffer after the other through the encoder
SpecWav == Init /\ [][NextWav]_vars

\* one /api/tts request after the other, the provider answering the items in any order
SpecBatch == Init /\ [][NextBatch]_vars

====
